---- MODULE Spec2Model ----
(***************************************************************************)
(* Attendance sessions of mapp/classes/attendance_service.py: clock-in,    *)
(* clock-out, lunch stamps and the end-of-day sweep, run by concurrent     *)
(* request workers against one relational store (READ COMMITTED, row       *)
(* locks taken by select_for_update on the rows a query returns).          *)
(*                                                                         *)
(* Time is counted in whole minutes.  total_hours is kept in hundredths of *)
(* an hour, the scale of DecimalField(decimal_places=2).                   *)
(***************************************************************************)
EXTENDS Integers, Sequences, FiniteSets, TLC

\* ---------------------------------------------------------------- bounds
MaxSessions == 2
MaxTick == 1
TickMinutes == 1600
MaxSnapshots == 1
MaxCorrections == 1
MaxRateSnapshots == 2
MaxDeductionSnapshots == 2
MaxCorrectionRows == 2

\* ---------------------------------------------------------------- domains
Users == {"u1", "u2"}
Procs == {"w1", "w2"}
\* the process slot the cron job runs in (the slots are interchangeable)
CronProc == "w2"
\* the users whose leave status the administrator changes
LeaveUsers == {"u1"}
\* the users who call lunch_in and lunch_out
LunchUsers == {"u1"}

\* A nullable column or argument: Null, or Some(v)
Null == <<>>
Some(v) == <<v>>
Val(o) == o[1]

Timestamps == {k * TickMinutes : k \in 0..MaxTick}
TimestampInputs == {Some(t) : t \in Timestamps} \cup {Null}
ClockOutTimestamps == {TickMinutes \div 2}
LunchInTimestamps == {TickMinutes \div 4}
LunchOutTimestamps == {TickMinutes \div 2}
\* the times at which the cron job starts
SweepTimestamps == {0, TickMinutes \div 2}
NoteInputs == {Null, Some(""), Some("leaving early")}
PhotoInputs == {Null, Some("data:image/png;base64,A")}

CLOCKIN_TYPE_CHOICES == {"regular", "overtime"}
ClockinTypeInputs == {"regular", "casual"}

\* Rows the attendance operations only read: CustomUser.is_active,
\* CustomUser.user_role and the active WorkingHoursConfig.end_time of
\* today's weekday for each role.
is_active == [u \in Users |-> TRUE]
user_role == [u \in Users |-> IF u = "u1" THEN "office" ELSE "teaching"]
working_hours == [r \in {"office", "teaching"} |->
                    IF r = "office" THEN Some(TickMinutes \div 2) ELSE Null]

VARIABLES
    sessions,          \* AttendanceSession table, in order of created_at
    is_present_today,  \* CustomUser.is_present_today, stored
    is_on_leave,       \* CustomUser.is_on_leave, stored
    req,               \* per worker: the call it is running
    reply              \* the result dict the last step returned, if any

VARIABLES
    hourly_rate,         \* CustomUser.hourly_rate, in cents
    deductions,          \* StatutoryDeduction: percentage by name, in 1/100 %
    overtime,            \* OvertimeAllowance table
    advances,            \* AdvancePayment table, in order of created_at
    hour_corrections,    \* HourCorrection table
    rate_snapshots,      \* HourlyRateSnapshot table
    deduction_snapshots, \* StatutoryDeductionSnapshot table
    payslip              \* the last generate_detailed_payslip call and result

attendance_vars == <<sessions, is_present_today, is_on_leave, req, reply>>
payroll_vars == <<hourly_rate, deductions, overtime, advances,
                  hour_corrections, rate_snapshots, deduction_snapshots,
                  payslip>>
vars == <<sessions, is_present_today, is_on_leave, req, reply,
          hourly_rate, deductions, overtime, advances, hour_corrections,
          rate_snapshots, deduction_snapshots, payslip>>

\* ---------------------------------------------------------------- helpers
\* timestamp.date()
DateOf(t) == t \div 1440

\* Variant: round(..., 1), one decimal place instead of two
RoundHoursOneDecimal(m) ==
    LET q == m \div 6
    IN  IF m % 6 >= 3 THEN 10 * (q + 1) ELSE 10 * q

\* round(delta.total_seconds() / 3600, 2), in hundredths, for a delta of
\* whole minutes: 100 * m / 60 = 5m/3 is never half-way between integers.
RoundHours(m) ==
    LET n == 5 * m
        q == n \div 3
    IN  IF n % 3 = 2 THEN q + 1 ELSE q

\* DecimalField(max_digits=6, decimal_places=2)
MaxTotalHours == 999999
FitsDecimal(h) == h <= MaxTotalHours /\ -h <= MaxTotalHours

\* base64.b64decode of the part after ";base64,"
PhotoDecodes(photo) == photo # Some("data:image/png;base64,A")

IdleReq == [pc |-> "idle", user |-> "u1", present |-> FALSE, leave |-> FALSE,
            rate |-> 0, ts |-> Null, ctype |-> "regular", photo |-> Null,
            sid |-> 0, row |-> Null, users |-> {}]

SessionIds == 1..Len(sessions)

\* Meta.ordering = ['-date', '-created_at']: row a sorts before row b
OrderedBefore(a, b) ==
    \/ sessions[a].date > sessions[b].date
    \/ sessions[a].date = sessions[b].date /\ a > b

\* QuerySet.first(): the first row in Meta.ordering, or None
First(ids) ==
    IF ids = {} THEN 0
    ELSE CHOOSE a \in ids : \A b \in ids \ {a} : OrderedBefore(a, b)

\* QuerySet.last(): the first row of the reversed ordering, or None
Last(ids) ==
    IF ids = {} THEN 0
    ELSE CHOOSE a \in ids : \A b \in ids \ {a} : OrderedBefore(b, a)

\* Variant: clock_out_time__isnull=False
OpenSessionsNotNull(u) ==
    {i \in SessionIds : /\ sessions[i].user = u
                        /\ sessions[i].status = "open"
                        /\ sessions[i].clock_out_time # Null}

\* Variant: the status filter left out
OpenSessionsAnyStatus(u) == {i \in SessionIds : sessions[i].user = u}

\* filter(user=user, status="open", clock_out_time__isnull=True)
OpenSessions(u) ==
    {i \in SessionIds : /\ sessions[i].user = u
                        /\ sessions[i].status = "open"
                        /\ sessions[i].clock_out_time = Null}

\* Variant: the clock_out_time filter left out, so that a session still
\* open can be picked
LunchInCandidatesAnySession(u) ==
    {i \in SessionIds : /\ sessions[i].user = u
                        /\ sessions[i].clock_in_time # Null
                        /\ sessions[i].lunch_in = Null}

\* filter(user=user, clock_in_time__isnull=False,
\*        clock_out_time__isnull=False, lunch_in__isnull=True)
LunchInCandidates(u) ==
    {i \in SessionIds : /\ sessions[i].user = u
                        /\ sessions[i].clock_in_time # Null
                        /\ sessions[i].clock_out_time # Null
                        /\ sessions[i].lunch_in = Null}

\* filter(user=user, lunch_in__isnull=False, lunch_out__isnull=True)
LunchOutCandidates(u) ==
    {i \in SessionIds : /\ sessions[i].user = u
                        /\ sessions[i].lunch_in # Null
                        /\ sessions[i].lunch_out = Null}

\* the result dict of an operation, with the call it answers
Result(op, u, args, msg) ==
    [op |-> op, user |-> u, args |-> args, message |-> msg]
Args(t, ctype, notes) == [timestamp |-> t, clockin_type |-> ctype, notes |-> notes]
NoArgs == Args(Null, Null, Null)
NoReply == Result("none", "u1", NoArgs, "none")

\* ---------------------------------------------------------------- payroll
\* Amounts: a DecimalField with two decimal places is kept in hundredths
\* (cents, hundredths of an hour, hundredths of a percent).  The amounts of
\* a payslip are floats in the code; here they are exact, in units of
\* 1/10000 (cents times hundredths of an hour).
Money(cents) == 100 * cents

\* StatutoryDeduction.name is unique and Meta.ordering is ['name']
DeductionNames == <<"NSSF", "PAYE">>
DeductionNameSet == {DeductionNames[k] : k \in 1..Len(DeductionNames)}

\* the sub-steps of a payslip that can fail
SubSteps == {"hourly_rate", "sessions", "overtime", "deductions", "advances"}

PayslipCall(u, month, year, failing) ==
    [user |-> u, month |-> month, year |-> year, failing |-> failing]
NoPayslip == [call |-> PayslipCall("u1", 0, 0, {}), result |-> [status |-> "none"]]

\* The store as constructed: no payroll rows, the column default of
\* hourly_rate.
InitPayrollEmpty ==
    /\ hourly_rate = [u \in Users |-> 0]
    /\ deductions = [n \in DeductionNameSet |-> Null]
    /\ overtime = <<>>
    /\ advances = <<>>
    /\ hour_corrections = <<>>
    /\ rate_snapshots = <<>>
    /\ deduction_snapshots = <<>>
    /\ payslip = NoPayslip

\* ---------------------------------------------------------------- Init
Init ==
    /\ sessions = <<>>
    /\ is_present_today = [u \in Users |-> FALSE]
    /\ is_on_leave = [u \in Users |-> FALSE]
    /\ req = [p \in Procs |-> IdleReq]
    /\ reply = NoReply
    /\ InitPayrollEmpty

\* ---------------------------------------------------------------- receivers
\* timezone.now() as the receivers read it: a logical time that grows with
\* every snapshot row
timezone_now == 1 + Len(rate_snapshots) + Len(deduction_snapshots)

\* filter(<field>=instance, effective_to__isnull=True).update(effective_to=now)
SnapshotsClosed(snapshots, field, key, now) ==
    [k \in 1..Len(snapshots) |->
        IF snapshots[k][field] = key /\ snapshots[k].effective_to = Null
        THEN [snapshots[k] EXCEPT !.effective_to = Some(now)]
        ELSE snapshots[k]]

\* HourlyRateSnapshot.objects.create(user=, hourly_rate=, effective_from=now)
HourlyRateSnapshot(u, rate, now) ==
    [user |-> u, hourly_rate |-> rate, effective_from |-> now,
     effective_to |-> Null]

\* StatutoryDeductionSnapshot.objects.create(deduction=, percentage=,
\* effective_from=now)
StatutoryDeductionSnapshot(name, percentage, now) ==
    [deduction |-> name, percentage |-> percentage, effective_from |-> now,
     effective_to |-> Null]

\* track_hourly_rate_change as one step, run by a save of user u whose
\* object carries instance_rate: the snapshot table it leaves
track_hourly_rate_change(u, instance_rate) ==
    IF hourly_rate[u] = instance_rate THEN rate_snapshots
    ELSE Append(SnapshotsClosed(rate_snapshots, "user", u, timezone_now),
                HourlyRateSnapshot(u, instance_rate, timezone_now))

\* ---------------------------------------------------------------- requests
\* api_update_user_leave_status: an administrator sets a user's leave flag.
update_user_leave_status(u, b) ==
    /\ is_on_leave[u] # b
    /\ is_on_leave' = [is_on_leave EXCEPT ![u] = b]
    /\ reply' = NoReply
    /\ UNCHANGED <<sessions, is_present_today, req>>
    /\ UNCHANGED payroll_vars

\* The operation returns msg and the worker is free again.
Finish(p, op, args, msg) ==
    /\ reply' = Result(op, req[p].user, args, msg)
    /\ req' = [req EXCEPT ![p] = IdleReq]

\* Variant: the clockin_type check before the leave check
clock_in_checks_type_first(user_is_on_leave, t, ctype) ==
    IF t = Null THEN "missing_timestamp"
    ELSE IF ctype \notin CLOCKIN_TYPE_CHOICES THEN "invalid_clockin_type"
    ELSE IF user_is_on_leave THEN "user_on_leave"
    ELSE "ok"

\* Variant: the clockin_type is not checked
clock_in_checks_any_type(user_is_on_leave, t, ctype) ==
    IF t = Null THEN "missing_timestamp"
    ELSE IF user_is_on_leave THEN "user_on_leave"
    ELSE "ok"

\* The checks of clock_in before its transaction, in the order of the code
clock_in_checks(user_is_on_leave, t, ctype) ==
    IF t = Null THEN "missing_timestamp"
    ELSE IF user_is_on_leave THEN "user_on_leave"
    ELSE IF ctype \notin CLOCKIN_TYPE_CHOICES THEN "invalid_clockin_type"
    ELSE "ok"

\* api_clock_in: the authentication layer loads request.user from the
\* store; clock_in reads the flags of this object, not of the stored row,
\* and the receiver of its user.save reads the hourly_rate of this object.
api_clock_in(p, u) ==
    /\ req[p].pc = "idle"
    /\ req' = [req EXCEPT ![p] = [IdleReq EXCEPT !.pc = "ci_auth", !.user = u,
                                   !.present = is_present_today[u],
                                   !.leave = is_on_leave[u],
                                   !.rate = hourly_rate[u]]]
    /\ reply' = NoReply
    /\ UNCHANGED <<sessions, is_present_today, is_on_leave>>
    /\ UNCHANGED payroll_vars

\* clock_in up to the insert: the checks, the locking read of the open
\* sessions and the decoding of the photo.  The read locks the rows it
\* returns; when it returns none, nothing is locked and the transaction
\* goes on to the insert.
clock_in_select(p, t, ctype, photo) ==
    LET u == req[p].user
        args == Args(t, Some(ctype), Null)
        check == clock_in_checks(req[p].leave, t, ctype)
    IN
    /\ req[p].pc = "ci_auth"
    /\ IF check # "ok" THEN Finish(p, "clock_in", args, check)
       ELSE IF First(OpenSessions(u)) # 0
            THEN Finish(p, "clock_in", args, "active_session_exists")
       ELSE IF photo # Null /\ ~PhotoDecodes(photo)
            THEN Finish(p, "clock_in", args, "invalid_photo_data")
       ELSE /\ req' = [req EXCEPT ![p].pc = "ci_create", ![p].ts = t,
                                  ![p].ctype = ctype, ![p].photo = photo,
                                  ![p].leave = FALSE]
            /\ reply' = NoReply
    /\ UNCHANGED <<sessions, is_present_today, is_on_leave>>
    /\ UNCHANGED payroll_vars

\* attendance_data and the column defaults of AttendanceSession: the row
\* clock_in inserts
NewSession(u, t, ctype, photo) ==
    [user |-> u, date |-> DateOf(t), clock_in_time |-> Some(t),
     lunch_in |-> Null, lunch_out |-> Null, clock_out_time |-> Null,
     clockin_type |-> ctype, status |-> "open", total_hours |-> Null,
     notes |-> Null, clock_in_photo |-> photo]

\* The rest of the clock_in transaction: the insert, the presence flag
\* (written only when the request's own copy says false) and the commit.
\* user.save(update_fields=["is_present_today"]) sends pre_save, so
\* track_hourly_rate_change runs on the request's user object; the UPDATE
\* writes the flag only.
clock_in_create(p) ==
    LET u == req[p].user
        row == NewSession(u, Val(req[p].ts), req[p].ctype, req[p].photo)
    IN
    /\ req[p].pc = "ci_create"
    /\ Len(sessions) < MaxSessions
    /\ sessions' = Append(sessions, row)
    /\ is_present_today' = IF ~req[p].present
                           THEN [is_present_today EXCEPT ![u] = TRUE]
                           ELSE is_present_today
    /\ rate_snapshots' = IF ~req[p].present
                          THEN track_hourly_rate_change(u, req[p].rate)
                          ELSE rate_snapshots
    /\ Finish(p, "clock_in", Args(req[p].ts, Some(req[p].ctype), Null),
              "clock_in_recorded")
    /\ UNCHANGED is_on_leave
    /\ UNCHANGED <<hourly_rate, deductions, overtime, advances,
                   hour_corrections, deduction_snapshots, payslip>>

\* Variant: session.notes = notes without the test of notes
ClosedRowNotesAlways(row, t, notes) ==
    [row EXCEPT !.clock_out_time = Some(t),
                !.status = "closed",
                !.notes = notes,
                !.total_hours =
                    Some(RoundHours(t - Val(row.clock_in_time)))]

\* Variant: status is not set
ClosedRowStatusKept(row, t, notes) ==
    [row EXCEPT !.clock_out_time = Some(t),
                !.notes = IF notes # Null /\ notes # Some("") THEN notes ELSE @,
                !.total_hours =
                    Some(RoundHours(t - Val(row.clock_in_time)))]

\* The open session as clock_out saves it
ClosedRow(row, t, notes) ==
    [row EXCEPT !.clock_out_time = Some(t),
                !.status = "closed",
                !.notes = IF notes # Null /\ notes # Some("") THEN notes ELSE @,
                !.total_hours =
                    Some(RoundHours(t - Val(row.clock_in_time)))]

\* Variant: the open session read without select_for_update and saved in a
\* later step from the copy read
clock_out_unlocked(p, u, t, notes) ==
    LET sid == First(OpenSessions(u))
        args == Args(Some(t), Null, notes)
    IN
    /\ \/ /\ req[p].pc = "idle"
          /\ IF sid = 0
             THEN /\ reply' = Result("clock_out", u, args, "no_active_session")
                  /\ UNCHANGED req
             ELSE /\ req' = [req EXCEPT ![p] = [IdleReq EXCEPT
                                !.pc = "co_save", !.user = u, !.ts = Some(t),
                                !.sid = sid, !.row = Some(sessions[sid])]]
                  /\ reply' = NoReply
          /\ UNCHANGED <<sessions, is_present_today>>
       \/ /\ req[p].pc = "co_save"
          /\ req[p].user = u
          /\ req[p].ts = Some(t)
          /\ sessions' = [sessions EXCEPT ![req[p].sid] =
                            ClosedRow(Val(req[p].row), t, notes)]
          /\ is_present_today' = [is_present_today EXCEPT ![u] = FALSE]
          /\ Finish(p, "clock_out", args, "clock_out_recorded")
    /\ UNCHANGED is_on_leave
    /\ UNCHANGED payroll_vars

\* clock_out(user=u, timestamp=t, notes=notes): one transaction.  The
\* locking read returns the user's most recent open session and holds its
\* row lock until the commit, so every other transaction that reads that
\* row waits and sees the committed row.  The user object is the one the
\* step loads: its key is read, and the receiver of its
\* user.save(update_fields=["is_present_today"]) finds its hourly_rate
\* equal to the stored one and returns.
clock_out(p, u, t, notes) ==
    LET sid == First(OpenSessions(u))
        args == Args(Some(t), Null, notes)
        closed == ClosedRow(sessions[sid], t, notes)
    IN
    /\ req[p].pc = "idle"
    /\ UNCHANGED req
    /\ IF sid = 0
       THEN /\ reply' = Result("clock_out", u, args, "no_active_session")
            /\ UNCHANGED <<sessions, is_present_today>>
       ELSE IF ~FitsDecimal(Val(closed.total_hours))
       THEN /\ reply' = Result("clock_out", u, args, "clock_out_failed")
            /\ UNCHANGED <<sessions, is_present_today>>
       ELSE /\ sessions' = [sessions EXCEPT ![sid] = closed]
            /\ is_present_today' = [is_present_today EXCEPT ![u] = FALSE]
            /\ reply' = Result("clock_out", u, args, "clock_out_recorded")
    /\ UNCHANGED is_on_leave
    /\ UNCHANGED payroll_vars

\* lunch_in, the read: filter(...).last()
lunch_in_read(p, u, t) ==
    LET sid == Last(LunchInCandidates(u)) IN
    /\ req[p].pc = "idle"
    /\ IF sid = 0
       THEN /\ reply' = Result("lunch_in", u, Args(Some(t), Null, Null),
                                   "no_session_available")
            /\ UNCHANGED req
       ELSE /\ req' = [req EXCEPT ![p] = [IdleReq EXCEPT
                          !.pc = "li_save", !.user = u, !.ts = Some(t),
                          !.sid = sid, !.row = Some(sessions[sid])]]
            /\ reply' = NoReply
    /\ UNCHANGED <<sessions, is_present_today, is_on_leave>>
    /\ UNCHANGED payroll_vars

\* lunch_in, the write: session.save() writes every column of the row as
\* the request read it, with lunch_in stamped.
lunch_in_save(p) ==
    /\ req[p].pc = "li_save"
    /\ sessions' = [sessions EXCEPT ![req[p].sid] =
                      [Val(req[p].row) EXCEPT !.lunch_in = req[p].ts]]
    /\ Finish(p, "lunch_in", Args(req[p].ts, Null, Null), "lunch_in_recorded")
    /\ UNCHANGED <<is_present_today, is_on_leave>>
    /\ UNCHANGED payroll_vars

\* lunch_out, the read: filter(...).last()
lunch_out_read(p, u, t) ==
    LET sid == Last(LunchOutCandidates(u)) IN
    /\ req[p].pc = "idle"
    /\ IF sid = 0
       THEN /\ reply' = Result("lunch_out", u, Args(Some(t), Null, Null),
                                   "no_lunch_session")
            /\ UNCHANGED req
       ELSE /\ req' = [req EXCEPT ![p] = [IdleReq EXCEPT
                          !.pc = "lo_save", !.user = u, !.ts = Some(t),
                          !.sid = sid, !.row = Some(sessions[sid])]]
            /\ reply' = NoReply
    /\ UNCHANGED <<sessions, is_present_today, is_on_leave>>
    /\ UNCHANGED payroll_vars

\* lunch_out, the write
lunch_out_save(p) ==
    /\ req[p].pc = "lo_save"
    /\ sessions' = [sessions EXCEPT ![req[p].sid] =
                      [Val(req[p].row) EXCEPT !.lunch_out = req[p].ts]]
    /\ Finish(p, "lunch_out", Args(req[p].ts, Null, Null),
              "lunch_out_recorded")
    /\ UNCHANGED <<is_present_today, is_on_leave>>
    /\ UNCHANGED payroll_vars

\* ---------------------------------------------------------------- views
\* get_current_session(user) behind api_get_current_session: the locking
\* read of filter(user=user, status="open").first(); nothing is written.
api_get_current_session(p, u) ==
    LET sid == First({i \in SessionIds : /\ sessions[i].user = u
                                         /\ sessions[i].status = "open"})
    IN
    /\ req[p].pc = "idle"
    /\ reply' = Result("get_current_session", u, NoArgs,
                       IF sid = 0 THEN "no_active_session" ELSE "success")
    /\ UNCHANGED <<sessions, is_present_today, is_on_leave, req>>
    /\ UNCHANGED payroll_vars

\* the status code api_clock_in answers a result of clock_in with
api_clock_in_status(message) ==
    CASE message = "clock_in_recorded" -> 201
      [] message = "active_session_exists" -> 409
      [] message = "invalid_photo_data" -> 422
      [] message = "missing_timestamp" -> 400
      [] OTHER -> 500

\* the status code api_clock_out answers a result of clock_out with
api_clock_out_status(message) ==
    IF message = "clock_out_recorded" THEN 200
    ELSE IF message = "no_active_session" THEN 409
    ELSE 400

\* the status code api_get_current_session answers with
api_get_current_session_status(message) ==
    IF message = "success" THEN 200
    ELSE IF message = "no_active_session" THEN 404
    ELSE 400

\* the status code of the response that carries result r
Response(r) ==
    CASE r.op = "clock_in" -> api_clock_in_status(r.message)
      [] r.op = "clock_out" -> api_clock_out_status(r.message)
      [] r.op = "get_current_session" ->
            api_get_current_session_status(r.message)
      [] OTHER -> 0

\* ---------------------------------------------------------------- sweep
\* get_user_day_end_time: the config of the user's role, or None
get_user_day_end_time(u) == working_hours[user_role[u]]

\* Variant: the name datetime bound to the class, whose combine builds the
\* end of the day
datetime_combine_of_class == "datetime"

\* datetime.combine(now.date(), end_time): the module's second import binds
\* the name datetime to the module, which has no attribute combine.
datetime_combine == "AttributeError"

\* the date of now at the time of day end_time
end_datetime(now, end_time) == DateOf(now) * 1440 + end_time

\* notes of the clock_out the job calls
AutoNotes == Some("Auto clock-out at end of working hours")

\* cls.clock_out(user=user, timestamp=now, notes=...) as the job calls it:
\* the transaction of clock_out, its result dropped
auto_clock_out_call(u, now) ==
    LET sid == First(OpenSessions(u))
        closed == ClosedRow(sessions[sid], now, AutoNotes)
    IN
    IF sid = 0 \/ ~FitsDecimal(Val(closed.total_hours))
    THEN UNCHANGED <<sessions, is_present_today>>
    ELSE /\ sessions' = [sessions EXCEPT ![sid] = closed]
         /\ is_present_today' = [is_present_today EXCEPT ![u] = FALSE]

\* The job reads the time and evaluates the queryset of active users marked
\* present.
auto_clock_out_start(p, now) ==
    /\ p = CronProc
    /\ req[p].pc = "idle"
    /\ req' = [req EXCEPT ![p] = [IdleReq EXCEPT !.pc = "sweep",
                 !.ts = Some(now), !.users =
                 {u \in Users : is_active[u] /\ is_present_today[u]}]]
    /\ reply' = NoReply
    /\ UNCHANGED <<sessions, is_present_today, is_on_leave>>
    /\ UNCHANGED payroll_vars

\* One iteration of the loop.  With no config the user is skipped; with
\* one, building end_datetime raises, the inner handler logs it and the
\* loop goes on: the comparison and clock_out are not reached.
auto_clock_out_user(p, u) ==
    LET day_config == get_user_day_end_time(u)
        now == Val(req[p].ts)
    IN
    /\ req[p].pc = "sweep"
    /\ u \in req[p].users
    /\ IF day_config = Null
       THEN UNCHANGED <<sessions, is_present_today>>
       ELSE IF datetime_combine = "AttributeError"
       THEN UNCHANGED <<sessions, is_present_today>>
       ELSE IF now >= end_datetime(now, Val(day_config))
       THEN auto_clock_out_call(u, now)
       ELSE UNCHANGED <<sessions, is_present_today>>
    /\ req' = [req EXCEPT ![p].users = @ \ {u}]
    /\ reply' = NoReply
    /\ UNCHANGED is_on_leave
    /\ UNCHANGED payroll_vars

\* The loop is over and the job returns.
auto_clock_out_finish(p) ==
    /\ req[p].pc = "sweep"
    /\ req[p].users = {}
    /\ req' = [req EXCEPT ![p] = IdleReq]
    /\ reply' = Result("auto_clock_out", "u1", Args(req[p].ts, Null, Null),
                        "finished")
    /\ UNCHANGED <<sessions, is_present_today, is_on_leave>>
    /\ UNCHANGED payroll_vars

\* ---------------------------------------------------------------- payslip
\* The tables a payslip is computed from, as one value
Store ==
    [sessions |-> sessions, hourly_rate |-> hourly_rate,
     deductions |-> deductions, overtime |-> overtime, advances |-> advances,
     hour_corrections |-> hour_corrections,
     rate_snapshots |-> rate_snapshots,
     deduction_snapshots |-> deduction_snapshots]

\* A DateField counts days from 1 January 2025; the years of the model are
\* not leap years.
DaysInMonth == <<31, 28, 31, 30, 31, 30, 31, 31, 30, 31, 30, 31>>
RECURSIVE DaysBefore(_)
DaysBefore(month) ==
    IF month = 1 THEN 0 ELSE DaysBefore(month - 1) + DaysInMonth[month - 1]
\* date__year and date__month
YearOfDate(d) == 2025 + d \div 365
MonthOfDate(d) ==
    CHOOSE month \in 1..12 :
        /\ DaysBefore(month) <= d % 365
        /\ d % 365 < DaysBefore(month) + DaysInMonth[month]

RECURSIVE SumSeq(_)
SumSeq(q) == IF q = <<>> THEN 0 ELSE Head(q) + SumSeq(Tail(q))

\* order_by(key): the rows ids as a sequence, by key and then by position
RECURSIVE order_by(_, _)
order_by(ids, key) ==
    IF ids = {} THEN <<>>
    ELSE LET a == CHOOSE x \in ids : \A y \in ids \ {x} :
                     key[x] < key[y] \/ (key[x] = key[y] /\ x < y)
         IN  <<a>> \o order_by(ids \ {a}, key)

\* Variant: the live rate replaced by the rate of the user's open snapshot
get_hourly_rate_of_snapshot(db, u, failing) ==
    LET open == {k \in 1..Len(db.rate_snapshots) :
                    /\ db.rate_snapshots[k].user = u
                    /\ db.rate_snapshots[k].effective_to = Null}
    IN
    IF "hourly_rate" \in failing
    THEN [status |-> "error", message |-> "hourly_rate_fetch_failed"]
    ELSE [status |-> "success",
          hourly_rate |-> IF open = {} THEN db.hourly_rate[u]
                          ELSE db.rate_snapshots[CHOOSE k \in open : TRUE].hourly_rate]

\* get_hourly_rate: float(user.hourly_rate or 0.0)
get_hourly_rate(db, u, failing) ==
    IF "hourly_rate" \in failing
    THEN [status |-> "error", message |-> "hourly_rate_fetch_failed"]
    ELSE [status |-> "success", hourly_rate |-> db.hourly_rate[u]]

\* get_all_deductions: every StatutoryDeduction row, in Meta.ordering
get_all_deductions(db, failing) ==
    IF "deductions" \in failing
    THEN [status |-> "error", message |-> "deductions_fetch_failed"]
    ELSE [status |-> "success",
          message |->
            LET present == {k \in 1..Len(DeductionNames) :
                               db.deductions[DeductionNames[k]] # Null}
                ks == order_by(present, [k \in present |-> k])
            IN  [j \in 1..Len(ks) |->
                   [name |-> DeductionNames[ks[j]],
                    percentage |-> Val(db.deductions[DeductionNames[ks[j]]])]]]

\* Variant: the date__month filter left out
attendance_qs_any_month(db, u, month, year) ==
    LET ids == {i \in 1..Len(db.sessions) :
                   /\ db.sessions[i].user = u
                   /\ YearOfDate(db.sessions[i].date) = year
                   /\ db.sessions[i].status = "closed"}
    IN  order_by(ids, [i \in ids |-> db.sessions[i].date])

\* AttendanceSession.objects.filter(user=user, date__month=month,
\*     date__year=year, status='closed').order_by('date')
attendance_qs(db, u, month, year) ==
    LET ids == {i \in 1..Len(db.sessions) :
                   /\ db.sessions[i].user = u
                   /\ MonthOfDate(db.sessions[i].date) = month
                   /\ YearOfDate(db.sessions[i].date) = year
                   /\ db.sessions[i].status = "closed"}
    IN  order_by(ids, [i \in ids |-> db.sessions[i].date])

\* OvertimeAllowance.objects.filter(user=user, month=month, year=year)
\*     .order_by('date')
overtime_qs(db, u, month, year) ==
    LET ids == {i \in 1..Len(db.overtime) :
                   /\ db.overtime[i].user = u
                   /\ db.overtime[i].month = month
                   /\ db.overtime[i].year = year}
    IN  order_by(ids, [i \in ids |-> db.overtime[i].date])

\* AdvancePayment.objects.filter(user=user, month=month, year=year)
\*     .order_by('created_at')
advance_qs(db, u, month, year) ==
    LET ids == {i \in 1..Len(db.advances) :
                   /\ db.advances[i].user = u
                   /\ db.advances[i].month = month
                   /\ db.advances[i].year = year}
    IN  order_by(ids, [i \in ids |-> i])

\* session.notes or "", ot.remarks or "", adv.remarks or ""
OrEmpty(text) == IF text = Null THEN "" ELSE Val(text)
\* float(x or 0) of a nullable DecimalField
OrZero(x) == IF x = Null THEN 0 ELSE Val(x)

\* 2. the rows of base_pay_breakdown, or its placeholder row
base_pay_breakdown(db, u, month, year, rate) ==
    LET qs == attendance_qs(db, u, month, year) IN
    IF qs # <<>>
    THEN [j \in 1..Len(qs) |->
            [date |-> Some(db.sessions[qs[j]].date),
             hours |-> OrZero(db.sessions[qs[j]].total_hours),
             pay |-> OrZero(db.sessions[qs[j]].total_hours) * rate,
             notes |-> OrEmpty(db.sessions[qs[j]].notes)]]
    ELSE <<[date |-> Null, hours |-> 0, pay |-> 0, notes |-> ""]>>

\* 3. the rows of overtime_breakdown, or its placeholder row
overtime_breakdown(db, u, month, year) ==
    LET qs == overtime_qs(db, u, month, year) IN
    IF qs # <<>>
    THEN [j \in 1..Len(qs) |->
            [date |-> Some(db.overtime[qs[j]].date),
             hours |-> db.overtime[qs[j]].hours,
             amount |-> Money(db.overtime[qs[j]].amount),
             remarks |-> OrEmpty(db.overtime[qs[j]].remarks)]]
    ELSE <<[date |-> Null, hours |-> 0, amount |-> 0, remarks |-> ""]>>

\* 4. gross_pay = total_base_pay + total_overtime
gross_pay(total_base_pay, total_overtime) == total_base_pay + total_overtime

\* Variant: the percentage not divided by 100
deduction_amount_undivided(gross, percentage) == (gross \div 100) * percentage

\* gross_pay * (d["percentage"] / 100), the percentage in hundredths of a
\* percent; gross is a whole number of cents and the division is exact
deduction_amount(gross, percentage) ==
    ((gross \div 100) * percentage) \div 100

\* 5. the rows of deductions_breakdown, or the fallback row when
\* get_all_deductions did not succeed
deductions_breakdown(db, gross, failing) ==
    LET deductions_result == get_all_deductions(db, failing) IN
    IF deductions_result.status = "success"
    THEN [j \in 1..Len(deductions_result.message) |->
            [name |-> deductions_result.message[j].name,
             percentage |-> deductions_result.message[j].percentage,
             amount |-> deduction_amount(gross,
                            deductions_result.message[j].percentage)]]
    ELSE <<[name |-> "No Deductions", percentage |-> 0, amount |-> 0]>>

\* 6. the rows of advance_breakdown, or its placeholder row
advance_breakdown(db, u, month, year) ==
    LET qs == advance_qs(db, u, month, year) IN
    IF qs # <<>>
    THEN [j \in 1..Len(qs) |->
            [date |-> Some(db.advances[qs[j]].created_at),
             amount |-> Money(db.advances[qs[j]].amount),
             remarks |-> OrEmpty(db.advances[qs[j]].remarks)]]
    ELSE <<[date |-> Null, amount |-> 0, remarks |-> ""]>>

\* Variant: the advances not subtracted
net_pay_before_advances(gross, total_deductions, total_advance) ==
    gross - total_deductions

\* 7. net_pay = gross_pay - total_deductions - total_advance
net_pay(gross, total_deductions, total_advance) ==
    gross - total_deductions - total_advance

Column(rows, name) == [j \in 1..Len(rows) |-> rows[j][name]]

PayslipError == [status |-> "error", message |-> "detailed_payslip_failed"]

\* generate_detailed_payslip(user, month, year): the dict it returns.  A
\* failing rate fetch or a failing query raises and leads to the except
\* branch; failing deductions lead to the fallback row.  In the placeholder
\* and fallback rows the totals keep their initial value 0.
generate_detailed_payslip_result(db, u, month, year, failing) ==
    LET rate_result == get_hourly_rate(db, u, failing)
        rate == rate_result.hourly_rate
        base == base_pay_breakdown(db, u, month, year, rate)
        ot == overtime_breakdown(db, u, month, year)
        total_base_pay == SumSeq(Column(base, "pay"))
        total_overtime == SumSeq(Column(ot, "amount"))
        gross == gross_pay(total_base_pay, total_overtime)
        ded == deductions_breakdown(db, gross, failing)
        total_deductions == SumSeq(Column(ded, "amount"))
        adv == advance_breakdown(db, u, month, year)
        total_advance == SumSeq(Column(adv, "amount"))
    IN
    IF rate_result.status # "success" THEN PayslipError
    ELSE IF failing \cap {"sessions", "overtime", "advances"} # {}
    THEN PayslipError
    ELSE [status |-> "success",
          user |-> u, month |-> month, year |-> year,
          hourly_rate |-> rate,
          base_pay_breakdown |-> base,
          total_hours |-> SumSeq(Column(base, "hours")),
          total_base_pay |-> total_base_pay,
          overtime_breakdown |-> ot,
          total_overtime |-> total_overtime,
          gross_pay |-> gross,
          deductions_breakdown |-> ded,
          total_deductions |-> total_deductions,
          advance_breakdown |-> adv,
          total_advance |-> total_advance,
          net_pay |-> net_pay(gross, total_deductions, total_advance)]

\* A call of generate_detailed_payslip; it writes no table.
generate_detailed_payslip(u, month, year, failing) ==
    /\ payslip' = [call |-> PayslipCall(u, month, year, failing),
                   result |-> generate_detailed_payslip_result(
                                  Store, u, month, year, failing)]
    /\ UNCHANGED <<hourly_rate, deductions, overtime, advances,
                   hour_corrections, rate_snapshots, deduction_snapshots>>
    /\ UNCHANGED attendance_vars

\* ---------------------------------------------------------------- payroll rows
\* old.percentage == instance.percentage: the Decimal of the stored row
\* against the float set_deduction was given (both in hundredths here).
\* Python compares the two exactly, and a float is a decimal of two places
\* exactly only when it is a multiple of 0.25.
DecimalEqualsFloat(d, f) == d = f /\ f % 25 = 0

\* DeductionService.set_deduction(name, percentage): update_or_create, which
\* holds the lock of an existing row from its read to its commit, and
\* track_statutory_deduction_change, which acts when the stored row does not
\* compare equal to the new value.  A call that writes the stored value
\* back and leaves the snapshots alone changes nothing and is left out.
set_deduction(name, percentage) ==
    LET changed == /\ deductions[name] # Null
                   /\ ~DecimalEqualsFloat(Val(deductions[name]), percentage)
    IN
    /\ deductions[name] = Null \/ changed
    /\ deductions' = [deductions EXCEPT ![name] = Some(percentage)]
    /\ deduction_snapshots' =
          IF changed
          THEN Append(SnapshotsClosed(deduction_snapshots, "deduction", name,
                                      timezone_now),
                      StatutoryDeductionSnapshot(name, percentage,
                                                 timezone_now))
          ELSE deduction_snapshots
    /\ payslip' = NoPayslip
    /\ UNCHANGED <<hourly_rate, overtime, advances, hour_corrections,
                   rate_snapshots>>
    /\ UNCHANGED attendance_vars

\* api_update_user_fields with hourly_rate, with no other save of the row
\* in flight: the user row is saved with the new rate and
\* track_hourly_rate_change records the change.
update_user_fields(u, rate) ==
    /\ hourly_rate[u] # rate
    /\ rate_snapshots' = track_hourly_rate_change(u, rate)
    /\ hourly_rate' = [hourly_rate EXCEPT ![u] = rate]
    /\ payslip' = NoPayslip
    /\ UNCHANGED <<deductions, overtime, advances, hour_corrections,
                   deduction_snapshots>>
    /\ UNCHANGED attendance_vars

\* The amount column has two decimal places and the product of hours and
\* rate has four: the store keeps the nearest cent.  A tie is rounded to
\* even where Django formats the number and away from zero where the
\* database does, so both neighbours are outcomes (x in 1/10000, the
\* results in cents).
Quantized(x) ==
    LET a == IF x < 0 THEN 0 - x ELSE x
        q == a \div 100
        r == a % 100
        m == IF r < 50 THEN {q} ELSE IF r > 50 THEN {q + 1} ELSE {q, q + 1}
    IN {IF x < 0 THEN 0 - c ELSE c : c \in m}

\* Variant: the rate of the user is read at every save
frozen_hourly_rate_live(row_rate, user_rate) == user_rate

\* if self.hourly_rate is None: self.hourly_rate = self.user.hourly_rate
frozen_hourly_rate(row_rate, user_rate) ==
    IF row_rate = Null THEN user_rate ELSE Val(row_rate)

\* Variant: the amount of the instance is kept
HourCorrection_amount_supplied(hours, rate, supplied) == {supplied}

\* self.amount = hours_decimal * hourly_rate_decimal, as stored; the amount
\* the instance carried is overwritten
HourCorrection_amount(hours, rate, supplied) == Quantized(hours * rate)

\* HourCorrection.save of an instance with the given fields: the rows it
\* can store (hours in hundredths, rate and amount in cents)
HourCorrection_save(row, hours, row_rate, supplied) ==
    LET rate == frozen_hourly_rate(row_rate, hourly_rate[row.user]) IN
    { [row EXCEPT !.hours = hours, !.hourly_rate = rate, !.amount = amount] :
         amount \in HourCorrection_amount(hours, rate, supplied) }

\* PayrollService.record_hour_correction(user, hours, month=, year=):
\* HourCorrection.objects.create with hourly_rate=user.hourly_rate; the
\* amount is the column default until save computes it.
record_hour_correction(u, hours, month, year) ==
    LET row == [user |-> u, month |-> month, year |-> year, hours |-> hours,
                hourly_rate |-> hourly_rate[u], amount |-> 0]
    IN
    /\ \E saved \in HourCorrection_save(row, hours, Some(hourly_rate[u]), 0) :
          hour_corrections' = Append(hour_corrections, saved)
    /\ payslip' = NoPayslip
    /\ UNCHANGED <<hourly_rate, deductions, overtime, advances,
                   rate_snapshots, deduction_snapshots>>
    /\ UNCHANGED attendance_vars

\* HourCorrection.save of the stored row k after its fields were edited:
\* hours, hourly_rate (None when the caller cleared it) and amount are those
\* of the instance.
hour_correction_save(k, hours, row_rate, supplied) ==
    /\ k \in 1..Len(hour_corrections)
    /\ \E saved \in HourCorrection_save(hour_corrections[k], hours, row_rate,
                                        supplied) :
          /\ saved # hour_corrections[k]
          /\ hour_corrections' = [hour_corrections EXCEPT ![k] = saved]
    /\ payslip' = NoPayslip
    /\ UNCHANGED <<hourly_rate, deductions, overtime, advances,
                   rate_snapshots, deduction_snapshots>>
    /\ UNCHANGED attendance_vars

\* ---------------------------------------------------------------- payroll inputs
JanuaryDay(k) == k - 1
FebruaryDay(k) == 31 + k - 1
\* a session of user u clocked in at 08:00 of day d and closed after m
\* minutes
WorkedSession(u, d, m) ==
    ClosedRow(NewSession(u, d * 1440 + 480, "regular", Null),
              d * 1440 + 480 + m, Null)
SessionTables ==
    { <<>>,
      <<WorkedSession("u1", JanuaryDay(1), 480)>>,
      <<NewSession("u1", JanuaryDay(3) * 1440 + 480, "regular", Null)>>,
      <<WorkedSession("u1", JanuaryDay(2), 450),
        WorkedSession("u1", JanuaryDay(1), 480)>>,
      <<WorkedSession("u2", JanuaryDay(1), 480),
        WorkedSession("u1", FebruaryDay(1), 480)>>,
      <<WorkedSession("u1", JanuaryDay(1), 480),
        WorkedSession("u2", JanuaryDay(1), 480),
        WorkedSession("u1", FebruaryDay(1), 480),
        NewSession("u1", JanuaryDay(3) * 1440 + 480, "regular", Null)>> }

OvertimeRow(u, month, d, hours, amount) ==
    [user |-> u, month |-> month, year |-> 2025, date |-> d, hours |-> hours,
     amount |-> amount, remarks |-> Null]
OvertimeTables ==
    { <<>>,
      <<OvertimeRow("u1", 1, JanuaryDay(5), 200, 5000)>>,
      <<OvertimeRow("u1", 1, JanuaryDay(5), 200, 5000),
        OvertimeRow("u2", 1, JanuaryDay(5), 100, 3000),
        OvertimeRow("u1", 2, FebruaryDay(2), 100, 2000),
        OvertimeRow("u1", 1, JanuaryDay(4), 100, 2500)>> }

AdvanceRow(u, month, d, amount) ==
    [user |-> u, month |-> month, year |-> 2025, created_at |-> d,
     amount |-> amount, remarks |-> Null]
AdvanceTables ==
    { <<>>,
      <<AdvanceRow("u1", 1, JanuaryDay(10), 10000)>>,
      <<AdvanceRow("u1", 1, JanuaryDay(10), 10000),
        AdvanceRow("u2", 1, JanuaryDay(11), 4000),
        AdvanceRow("u1", 2, FebruaryDay(3), 7000)>> }

DeductionTables ==
    { [n \in DeductionNameSet |-> Null],
      [n \in DeductionNameSet |-> IF n = "PAYE" THEN Some(1000) ELSE Some(600)] }

PercentageInputs == {600, 1000}
RateInputs == {20000, 25000}
RateUsers == {"u1"}
CorrectionHours == {200, 0 - 100, 0}
PayslipPeriods == {<<1, 2025>>, <<2, 2025>>}

\* The stores payslips are computed from
InitPayroll ==
    /\ sessions \in SessionTables
    /\ is_present_today = [u \in Users |-> FALSE]
    /\ is_on_leave = [u \in Users |-> FALSE]
    /\ req = [p \in Procs |-> IdleReq]
    /\ reply = NoReply
    /\ hourly_rate = [u \in Users |-> IF u = "u1" THEN 20000 ELSE 12500]
    /\ deductions \in DeductionTables
    /\ overtime \in OvertimeTables
    /\ advances \in AdvanceTables
    /\ hour_corrections = <<>>
    /\ rate_snapshots = <<>>
    /\ deduction_snapshots = <<>>
    /\ payslip = NoPayslip

StoreChange ==
    \/ \E n \in DeductionNameSet, pct \in PercentageInputs :
          /\ deductions[n] # Null => Len(deduction_snapshots) < MaxSnapshots
          /\ set_deduction(n, pct)
    \/ \E u \in RateUsers, rate \in RateInputs :
          /\ Len(rate_snapshots) < MaxSnapshots
          /\ update_user_fields(u, rate)
    \/ \E u \in RateUsers, h \in CorrectionHours, period \in PayslipPeriods :
          /\ Len(hour_corrections) < MaxCorrections
          /\ record_hour_correction(u, h, period[1], period[2])

\* Payslips of a store that answers every query
NextPayroll ==
    \/ \E u \in Users, period \in PayslipPeriods :
          generate_detailed_payslip(u, period[1], period[2], {})
    \/ StoreChange

SpecPayroll == InitPayroll /\ [][NextPayroll]_vars

\* Payslips of stores whose queries may fail
NextPayrollFaults ==
    \E u \in Users, period \in PayslipPeriods, failing \in SUBSET SubSteps :
        generate_detailed_payslip(u, period[1], period[2], failing)

SpecPayrollFaults == InitPayroll /\ [][NextPayrollFaults]_vars

\* ---------------------------------------------------------------- rate changes
\* api_update_user_fields with hourly_rate, as concurrent requests run it.
\* The service loads the user, sets the rate and calls save().  save()
\* sends pre_save before it writes the row, and track_hourly_rate_change is
\* four statements with no lock and no transaction of its own: the read of
\* the stored row with the comparison, the UPDATE that closes the open
\* snapshots, the INSERT of the new snapshot; the UPDATE of the user row
\* follows.

\* the service up to the receiver's comparison and its timezone.now()
update_user_fields_read(p, u, rate) ==
    /\ req[p].pc = "idle"
    /\ hourly_rate[u] # rate
    /\ req' = [req EXCEPT ![p] = [IdleReq EXCEPT !.pc = "rate_close",
                                   !.user = u, !.rate = rate,
                                   !.ts = Some(timezone_now)]]
    /\ reply' = NoReply
    /\ UNCHANGED <<sessions, is_present_today, is_on_leave>>
    /\ UNCHANGED payroll_vars

\* HourlyRateSnapshot.objects.filter(user=instance,
\* effective_to__isnull=True).update(effective_to=now)
track_hourly_rate_change_close(p) ==
    /\ req[p].pc = "rate_close"
    /\ rate_snapshots' = SnapshotsClosed(rate_snapshots, "user", req[p].user,
                                         Val(req[p].ts))
    /\ req' = [req EXCEPT ![p].pc = "rate_create"]
    /\ reply' = NoReply
    /\ UNCHANGED <<sessions, is_present_today, is_on_leave>>
    /\ UNCHANGED <<hourly_rate, deductions, overtime, advances,
                   hour_corrections, deduction_snapshots, payslip>>

\* HourlyRateSnapshot.objects.create(...)
track_hourly_rate_change_create(p) ==
    /\ req[p].pc = "rate_create"
    /\ rate_snapshots' = Append(rate_snapshots,
                                HourlyRateSnapshot(req[p].user, req[p].rate,
                                                   Val(req[p].ts)))
    /\ req' = [req EXCEPT ![p].pc = "rate_write"]
    /\ reply' = NoReply
    /\ UNCHANGED <<sessions, is_present_today, is_on_leave>>
    /\ UNCHANGED <<hourly_rate, deductions, overtime, advances,
                   hour_corrections, deduction_snapshots, payslip>>

\* the UPDATE of the user row, and the view's answer
update_user_fields_write(p) ==
    /\ req[p].pc = "rate_write"
    /\ hourly_rate' = [hourly_rate EXCEPT ![req[p].user] = req[p].rate]
    /\ Finish(p, "update_user_fields", NoArgs, "success")
    /\ payslip' = NoPayslip
    /\ UNCHANGED <<sessions, is_present_today, is_on_leave>>
    /\ UNCHANGED <<deductions, overtime, advances, hour_corrections,
                   rate_snapshots, deduction_snapshots>>

\* the saves whose receiver has yet to insert its snapshot
RateSavesInFlight ==
    Cardinality({p \in Procs : req[p].pc \in {"rate_close", "rate_create"}})

RateChangeInputs == {15025, 20000}
SnapshotPercentages == {510, 600}
SnapshotDeductions == {"NSSF"}
RateClockInTimestamps == {0}
RateClockOutTimestamps == {TickMinutes \div 2}

\* Users as create_user made them and no deduction yet: neither receiver
\* writes a snapshot for a row that is not stored.
InitRates ==
    /\ sessions = <<>>
    /\ is_present_today = [u \in Users |-> FALSE]
    /\ is_on_leave = [u \in Users |-> FALSE]
    /\ req = [p \in Procs |-> IdleReq]
    /\ reply = NoReply
    /\ hourly_rate = [u \in Users |-> IF u = "u1" THEN 15025 ELSE 12500]
    /\ deductions = [n \in DeductionNameSet |-> Null]
    /\ overtime = <<>>
    /\ advances = <<>>
    /\ hour_corrections = <<>>
    /\ rate_snapshots = <<>>
    /\ deduction_snapshots = <<>>
    /\ payslip = NoPayslip

\* Rate and percentage changes next to the clock-in and clock-out requests
\* of the user whose rate changes
NextRates ==
    \/ \E p \in Procs, u \in RateUsers : api_clock_in(p, u)
    \/ \E p \in Procs, t \in RateClockInTimestamps :
          clock_in_select(p, Some(t), "regular", Null)
    \/ \E p \in Procs :
          /\ Len(rate_snapshots) + RateSavesInFlight < MaxRateSnapshots
          /\ clock_in_create(p)
    \/ \E p \in Procs, u \in RateUsers, t \in RateClockOutTimestamps :
          clock_out(p, u, t, Null)
    \/ \E p \in Procs, u \in RateUsers, rate \in RateChangeInputs :
          /\ Len(rate_snapshots) + RateSavesInFlight < MaxRateSnapshots
          /\ update_user_fields_read(p, u, rate)
    \/ \E p \in Procs : track_hourly_rate_change_close(p)
    \/ \E p \in Procs : track_hourly_rate_change_create(p)
    \/ \E p \in Procs : update_user_fields_write(p)
    \/ \E n \in SnapshotDeductions, pct \in SnapshotPercentages :
          /\ Len(deduction_snapshots) < MaxDeductionSnapshots
          /\ set_deduction(n, pct)

SpecRates == InitRates /\ [][NextRates]_vars

\* ---------------------------------------------------------------- corrections
CorrectionHourInputs == {33, 50, 0 - 100}
CorrectionRateInputs == {Null, Some(15025), Some(20000)}
SuppliedAmounts == {0, 77700}

\* Hour corrections recorded and saved again while the rate of the user
\* changes
NextCorrections ==
    \/ \E u \in RateUsers, h \in CorrectionHourInputs :
          /\ Len(hour_corrections) < MaxCorrectionRows
          /\ record_hour_correction(u, h, 1, 2025)
    \/ \E k \in 1..MaxCorrectionRows, h \in CorrectionHourInputs,
          r \in CorrectionRateInputs, a \in SuppliedAmounts :
          hour_correction_save(k, h, r, a)
    \/ \E u \in RateUsers, rate \in RateChangeInputs :
          /\ Len(rate_snapshots) < MaxRateSnapshots
          /\ update_user_fields(u, rate)

SpecCorrections == InitRates /\ [][NextCorrections]_vars

\* ---------------------------------------------------------------- Next
Next ==
    \/ \E u \in LeaveUsers, b \in BOOLEAN : update_user_leave_status(u, b)
    \/ \E p \in Procs, u \in Users : api_clock_in(p, u)
    \/ \E p \in Procs, t \in TimestampInputs, c \in ClockinTypeInputs,
          ph \in PhotoInputs : clock_in_select(p, t, c, ph)
    \/ \E p \in Procs : clock_in_create(p)
    \/ \E p \in Procs, u \in Users, t \in ClockOutTimestamps, n \in NoteInputs :
          clock_out(p, u, t, n)
    \/ \E p \in Procs, u \in LunchUsers, t \in LunchInTimestamps :
          lunch_in_read(p, u, t)
    \/ \E p \in Procs : lunch_in_save(p)
    \/ \E p \in Procs, u \in LunchUsers, t \in LunchOutTimestamps :
          lunch_out_read(p, u, t)
    \/ \E p \in Procs : lunch_out_save(p)
    \/ \E p \in Procs, now \in SweepTimestamps : auto_clock_out_start(p, now)
    \/ \E p \in Procs, u \in Users : auto_clock_out_user(p, u)
    \/ \E p \in Procs : auto_clock_out_finish(p)

Spec == Init /\ [][Next]_vars

\* The job with no concurrent operation: from its start to its return no
\* request runs and no request is in flight (scripts/auto_clock_out_users.py
\* run on a quiet system).
NoSweep == req[CronProc].pc # "sweep"
NoRequest == \A p \in Procs \ {CronProc} : req[p].pc = "idle"

NextSweepAlone ==
    \/ \E u \in LeaveUsers, b \in BOOLEAN :
          NoSweep /\ update_user_leave_status(u, b)
    \/ \E p \in Procs, u \in Users : NoSweep /\ api_clock_in(p, u)
    \/ \E p \in Procs, t \in TimestampInputs, c \in ClockinTypeInputs,
          ph \in PhotoInputs : NoSweep /\ clock_in_select(p, t, c, ph)
    \/ \E p \in Procs : NoSweep /\ clock_in_create(p)
    \/ \E p \in Procs, u \in Users, t \in ClockOutTimestamps, n \in NoteInputs :
          NoSweep /\ clock_out(p, u, t, n)
    \/ \E p \in Procs, u \in LunchUsers, t \in LunchInTimestamps :
          NoSweep /\ lunch_in_read(p, u, t)
    \/ \E p \in Procs : NoSweep /\ lunch_in_save(p)
    \/ \E p \in Procs, u \in LunchUsers, t \in LunchOutTimestamps :
          NoSweep /\ lunch_out_read(p, u, t)
    \/ \E p \in Procs : NoSweep /\ lunch_out_save(p)
    \/ \E p \in Procs, now \in SweepTimestamps :
          NoRequest /\ auto_clock_out_start(p, now)
    \/ \E p \in Procs, u \in Users : auto_clock_out_user(p, u)
    \/ \E p \in Procs : auto_clock_out_finish(p)

SpecSweepAlone == Init /\ [][NextSweepAlone]_vars

\* The three views of the attendance state machine and what they answer
NextHttp ==
    \/ \E p \in Procs, u \in Users : api_clock_in(p, u)
    \/ \E p \in Procs, t \in TimestampInputs, c \in ClockinTypeInputs,
          ph \in PhotoInputs : clock_in_select(p, t, c, ph)
    \/ \E p \in Procs : clock_in_create(p)
    \/ \E p \in Procs, u \in Users, t \in ClockOutTimestamps, n \in NoteInputs :
          clock_out(p, u, t, n)
    \/ \E p \in Procs, u \in Users : api_get_current_session(p, u)

SpecHttp == Init /\ [][NextHttp]_vars

\* ================================================================ claims
\* the sessions of u whose status is open
StatusOpen(u) ==
    {i \in SessionIds : sessions[i].user = u /\ sessions[i].status = "open"}

ValidTypeArg(c) == \E v \in CLOCKIN_TYPE_CHOICES : c = Some(v)

\* a step in which worker p runs clock_in from its checks to a return or to
\* the point before the insert
ClockInCall(p) == req[p].pc = "ci_auth" /\ req'[p].pc # "ci_auth"
ClockInTimestamp(p) ==
    IF req'[p].pc = "idle" THEN reply'.args.timestamp ELSE req'[p].ts
ClockInType(p) ==
    IF req'[p].pc = "idle" THEN reply'.args.clockin_type
    ELSE Some(req'[p].ctype)
ClockInReturns(p, msg) ==
    /\ req'[p].pc = "idle"
    /\ reply'.op = "clock_in"
    /\ reply'.user = req[p].user
    /\ reply'.message = msg

\* C1: in every reachable state, also under concurrent clock_in calls for
\* the same user, no user has two sessions with status open.
C1_AtMostOneOpenSession ==
    \A u \in Users : Cardinality(StatusOpen(u)) <= 1

\* C2: while a user has an open session (a clock_in succeeded and no
\* clock_out followed), a further clock_in(u, T) with a timestamp and a
\* valid type, for a user object not on leave, returns
\* active_session_exists, creates no session and leaves the open session
\* and the user's flags as they are.
C2_SecondClockInRejected ==
    [][\A p \in Procs :
         ( /\ ClockInCall(p)
           /\ StatusOpen(req[p].user) # {}
           /\ ~req[p].leave
           /\ ClockInTimestamp(p) # Null
           /\ ValidTypeArg(ClockInType(p)) )
         => /\ ClockInReturns(p, "active_session_exists")
            /\ sessions' = sessions
            /\ is_present_today' = is_present_today
            /\ is_on_leave' = is_on_leave]_vars

C2_Witness ==
    /\ reply.op = "clock_in"
    /\ reply.message = "active_session_exists"
    /\ StatusOpen(reply.user) # {}
    /\ is_present_today[reply.user]

\* C3: clock_in for a user object whose is_on_leave is true returns
\* user_on_leave for every timestamp and every clockin_type, valid or not,
\* creates no session and does not change is_present_today.
C3_OnLeaveRejected ==
    [][\A p \in Procs :
         ( /\ ClockInCall(p)
           /\ req[p].leave
           /\ ClockInTimestamp(p) # Null )
         => /\ ClockInReturns(p, "user_on_leave")
            /\ sessions' = sessions
            /\ is_present_today' = is_present_today]_vars

C3_Witness ==
    /\ reply.op = "clock_in"
    /\ reply.message = "user_on_leave"
    /\ ~ValidTypeArg(reply.args.clockin_type)
    /\ StatusOpen(reply.user) # {}

\* C4: every closed session holds total_hours = round((T2 - T1) / 3600 s, 2):
\* the stored value, in hundredths, is the integer nearest to
\* 100 * (T2 - T1) / 60 min, whatever lunch_in and lunch_out hold.
C4_TotalHoursRounded ==
    \A i \in SessionIds :
        sessions[i].status = "closed" =>
            LET d == Val(sessions[i].clock_out_time)
                       - Val(sessions[i].clock_in_time)
                e == 10 * d - 6 * Val(sessions[i].total_hours)
            IN  /\ sessions[i].total_hours # Null
                /\ e <= 3
                /\ -e <= 3

C4_Witness ==
    \E i \in SessionIds :
        /\ sessions[i].status = "closed"
        /\ sessions[i].lunch_in # Null
        /\ sessions[i].lunch_out # Null
        /\ Val(sessions[i].lunch_out) > Val(sessions[i].lunch_in)
        /\ Val(sessions[i].clock_out_time) > Val(sessions[i].clock_in_time)
        /\ (5 * (Val(sessions[i].clock_out_time)
                   - Val(sessions[i].clock_in_time))) % 3 # 0

\* C5: a successful clock_out(user, T, notes) changes exactly one session,
\* an open session of that user, to status closed with clock_out_time T and
\* total_hours set (and notes when given), sets the stored is_present_today
\* of that user to false, and changes no other session and no other user.
C5_ClockOutFrame ==
    [][( /\ reply'.op = "clock_out"
         /\ reply'.message = "clock_out_recorded" )
       => LET u == reply'.user
              n == reply'.args.notes
          IN
          /\ Len(sessions') = Len(sessions)
          /\ \E i \in StatusOpen(u) :
                /\ sessions'[i] =
                     [sessions[i] EXCEPT
                        !.status = "closed",
                        !.clock_out_time = reply'.args.timestamp,
                        !.total_hours = sessions'[i].total_hours,
                        !.notes = IF n # Null /\ n # Some("")
                                  THEN n ELSE @]
                /\ sessions'[i].total_hours # Null
                /\ \A j \in SessionIds \ {i} : sessions'[j] = sessions[j]
          /\ is_present_today' = [is_present_today EXCEPT ![u] = FALSE]
          /\ is_on_leave' = is_on_leave]_vars

C5_Witness ==
    /\ reply.op = "clock_out"
    /\ reply.message = "clock_out_recorded"
    /\ reply.args.notes = Some("leaving early")
    /\ \E i, j \in SessionIds :
          /\ sessions[i].user = reply.user
          /\ sessions[i].status = "closed"
          /\ sessions[i].notes = Some("leaving early")
          /\ sessions[j].user # reply.user
          /\ sessions[j].status = "open"
    /\ \E v \in Users \ {reply.user} : is_present_today[v]

\* C6: clock_out for a user with no open session returns no_active_session
\* and leaves every session row and the presence flags unchanged.
C6_NoActiveSession ==
    [][( /\ reply'.op = "clock_out"
         /\ StatusOpen(reply'.user) = {} )
       => /\ reply'.message = "no_active_session"
          /\ sessions' = sessions
          /\ is_present_today' = is_present_today]_vars

C6_Witness ==
    /\ reply.op = "clock_out"
    /\ reply.message = "no_active_session"
    /\ \E i \in SessionIds :
          sessions[i].user = reply.user /\ sessions[i].status = "closed"
    /\ \E j \in SessionIds : sessions[j].status = "open"

\* C7: whenever clock_in for user u returns success, the stored
\* is_present_today of u is true once the transaction has committed.
C7_PresentAfterClockIn ==
    (reply.op = "clock_in" /\ reply.message = "clock_in_recorded")
        => is_present_today[reply.user]

\* C8: every session is either open with clock_in_time set and
\* clock_out_time null, or closed with clock_out_time and total_hours set.
C8_SessionShape ==
    \A i \in SessionIds :
        \/ /\ sessions[i].status = "open"
           /\ sessions[i].clock_in_time # Null
           /\ sessions[i].clock_out_time = Null
        \/ /\ sessions[i].status = "closed"
           /\ sessions[i].clock_out_time # Null
           /\ sessions[i].total_hours # Null

C8_Witness ==
    \E i, j \in SessionIds :
        /\ sessions[i].status = "closed"
        /\ sessions[i].lunch_in # Null
        /\ sessions[i].lunch_out # Null
        /\ sessions[j].status = "open"
        /\ reply.op = "auto_clock_out"

\* C9: for every closed session clock_out_time is not earlier than
\* clock_in_time and total_hours is not negative.
C9_ClockOutNotBeforeClockIn ==
    \A i \in SessionIds :
        sessions[i].status = "closed" =>
            /\ Val(sessions[i].clock_out_time) >= Val(sessions[i].clock_in_time)
            /\ Val(sessions[i].total_hours) >= 0

\* the session a is at least as recent as b: later date, then later
\* created_at
AsRecentAs(a, b) ==
    \/ a = b
    \/ sessions[a].date > sessions[b].date
    \/ sessions[a].date = sessions[b].date /\ a > b

\* C10: of several sessions eligible for lunch_in (clock_in_time and
\* clock_out_time set, lunch_in null) lunch_in picks the most recent one,
\* and lunch_out picks the most recent session with lunch_in set and
\* lunch_out null.
C10_LunchPicksMostRecent ==
    [][\A p \in Procs :
         /\ (req[p].pc = "idle" /\ req'[p].pc = "li_save")
              => \A j \in SessionIds :
                    ( /\ sessions[j].user = req'[p].user
                      /\ sessions[j].clock_in_time # Null
                      /\ sessions[j].clock_out_time # Null
                      /\ sessions[j].lunch_in = Null )
                    => AsRecentAs(req'[p].sid, j)
         /\ (req[p].pc = "idle" /\ req'[p].pc = "lo_save")
              => \A j \in SessionIds :
                    ( /\ sessions[j].user = req'[p].user
                      /\ sessions[j].lunch_in # Null
                      /\ sessions[j].lunch_out = Null )
                    => AsRecentAs(req'[p].sid, j)]_vars

\* worker p finishes a successful lunch_in (resp. lunch_out) in this step
LunchInSaved(p) == req[p].pc = "li_save" /\ req'[p].pc = "idle"
LunchOutSaved(p) == req[p].pc = "lo_save" /\ req'[p].pc = "idle"
\* a lunch call of worker p reads in this step, or returns its error
LunchRead(p) ==
    \/ req[p].pc = "idle" /\ req'[p].pc \in {"li_save", "lo_save"}
    \/ reply'.message \in {"no_session_available", "no_lunch_session"}

\* C11: lunch_in and lunch_out never change status, clock_in_time,
\* clock_out_time or total_hours of any session: the step in which a
\* successful lunch_in (resp. lunch_out) writes changes nothing but the
\* lunch_in (resp. lunch_out) field of exactly one session of the calling
\* user, and a failing call (no_session_available, no_lunch_session) changes
\* nothing.
C11_LunchFrame ==
    [][\A p \in Procs :
         /\ LunchInSaved(p) =>
              /\ Len(sessions') = Len(sessions)
              /\ \E i \in SessionIds :
                    /\ sessions[i].user = req[p].user
                    /\ sessions'[i] = [sessions[i] EXCEPT !.lunch_in = req[p].ts]
                    /\ \A j \in SessionIds \ {i} : sessions'[j] = sessions[j]
              /\ is_present_today' = is_present_today
              /\ is_on_leave' = is_on_leave
         /\ LunchOutSaved(p) =>
              /\ Len(sessions') = Len(sessions)
              /\ \E i \in SessionIds :
                    /\ sessions[i].user = req[p].user
                    /\ sessions'[i] = [sessions[i] EXCEPT !.lunch_out = req[p].ts]
                    /\ \A j \in SessionIds \ {i} : sessions'[j] = sessions[j]
              /\ is_present_today' = is_present_today
              /\ is_on_leave' = is_on_leave
         /\ LunchRead(p) =>
              /\ sessions' = sessions
              /\ is_present_today' = is_present_today
              /\ is_on_leave' = is_on_leave]_vars

\* a step of the auto-clock-out job: its start, one iteration or its return
SweepStep ==
    /\ req'[CronProc] # req[CronProc]
    /\ req[CronProc].pc = "sweep" \/ req'[CronProc].pc = "sweep"

\* C12: no step of the sweep changes the flags or a session of a user whose
\* stored is_present_today is false when the step is taken, and no step of
\* the sweep changes the number of session rows, whatever manual clock_in
\* and clock_out calls run between its steps.
C12_SweepLeavesAbsentUsers ==
    [][SweepStep =>
         /\ Len(sessions') = Len(sessions)
         /\ \A u \in Users :
               ~is_present_today[u] =>
                  /\ is_present_today'[u] = is_present_today[u]
                  /\ is_on_leave'[u] = is_on_leave[u]
                  /\ \A i \in SessionIds :
                        sessions[i].user = u => sessions'[i] = sessions[i]]_vars

\* the job has gone through a user of a role with working hours who was
\* listed as present, has clocked out since, and has an open session left
C12_Witness ==
    /\ req[CronProc].pc = "sweep"
    /\ req[CronProc].ts = Some(TickMinutes \div 2)
    /\ \E u \in Users \ req[CronProc].users :
          /\ get_user_day_end_time(u) # Null
          /\ ~is_present_today[u]
          /\ StatusOpen(u) # {}
          /\ \E i \in SessionIds :
                sessions[i].user = u /\ sessions[i].status = "closed"

\* C13: when a run of the auto-clock-out job with no concurrent operation
\* has returned, no active user marked present whose role has a working
\* hours row with end_time at or before the time of the run has an open
\* session left: the job has closed it with notes 'Auto clock-out at end of
\* working hours' and set is_present_today to false.
C13_SweepClosesDueSessions ==
    (reply.op = "auto_clock_out" /\ reply.args.timestamp # Null) =>
        \A u \in Users :
            ( /\ is_active[u]
              /\ get_user_day_end_time(u) # Null
              /\ Val(reply.args.timestamp) >=
                    end_datetime(Val(reply.args.timestamp),
                                 Val(get_user_day_end_time(u))) )
            => \/ ~is_present_today[u]
               \/ StatusOpen(u) = {}

\* a payslip has been computed and nothing has been written since
PayslipGenerated == payslip # NoPayslip
PayslipSucceeded == PayslipGenerated /\ payslip.result.status = "success"

PayslipKeys ==
    {"status", "user", "month", "year", "hourly_rate", "base_pay_breakdown",
     "total_hours", "total_base_pay", "overtime_breakdown", "total_overtime",
     "gross_pay", "deductions_breakdown", "total_deductions",
     "advance_breakdown", "total_advance", "net_pay"}

\* C14: a payslip computed from a store that answers every query succeeds
\* and has all its keys, whatever rows exist for the user and period (none
\* included), and its net_pay is gross_pay - total_deductions -
\* total_advance.
C14_NetPay ==
    PayslipGenerated =>
        /\ payslip.result.status = "success"
        /\ DOMAIN payslip.result = PayslipKeys
        /\ payslip.result.net_pay =
              payslip.result.gross_pay - payslip.result.total_deductions
                 - payslip.result.total_advance

\* 8 hours at 200 per hour, overtime 50, advance 100, no deduction rows:
\* gross_pay 1650 and net_pay 1550
C14_Witness ==
    /\ PayslipSucceeded
    /\ payslip.result.total_hours = 800
    /\ payslip.result.hourly_rate = 20000
    /\ payslip.result.total_overtime = Money(5000)
    /\ payslip.result.total_advance = Money(10000)
    /\ \A n \in DeductionNameSet : deductions[n] = Null
    /\ payslip.result.gross_pay = Money(165000)
    /\ payslip.result.net_pay = Money(155000)

RECURSIVE SumOver(_, _)
SumOver(ids, f) ==
    IF ids = {} THEN 0
    ELSE LET x == CHOOSE y \in ids : TRUE IN f[x] + SumOver(ids \ {x}, f)

\* the closed sessions of u dated in the month and year
ClosedInPeriod(u, month, year) ==
    {i \in SessionIds : /\ sessions[i].user = u
                        /\ sessions[i].status = "closed"
                        /\ MonthOfDate(sessions[i].date) = month
                        /\ YearOfDate(sessions[i].date) = year}
\* the overtime rows of u for the month and year
OvertimeInPeriod(u, month, year) ==
    {i \in 1..Len(overtime) : /\ overtime[i].user = u
                              /\ overtime[i].month = month
                              /\ overtime[i].year = year}

\* C15: in a successful payslip total_base_pay is the sum of total_hours
\* over the user's closed sessions dated in the month and year, times the
\* user's current hourly_rate, and gross_pay is total_base_pay plus the sum
\* of the user's overtime amounts of the month and year: open sessions,
\* rows of other users and rows of other periods add nothing.
C15_BasePayAndGross ==
    PayslipSucceeded =>
        LET u == payslip.call.user
            closed == ClosedInPeriod(u, payslip.call.month, payslip.call.year)
            ot == OvertimeInPeriod(u, payslip.call.month, payslip.call.year)
        IN
        /\ payslip.result.total_base_pay =
              SumOver(closed, [i \in closed |-> Val(sessions[i].total_hours)])
                 * hourly_rate[u]
        /\ payslip.result.gross_pay =
              payslip.result.total_base_pay
                 + SumOver(ot, [i \in ot |-> Money(overtime[i].amount)])

C15_Witness ==
    /\ PayslipSucceeded
    /\ payslip.call.user = "u1"
    /\ payslip.result.total_base_pay > 0
    /\ payslip.result.total_overtime > 0
    /\ \E i, j, k \in SessionIds :
          /\ sessions[i].user = "u1" /\ sessions[i].status = "open"
          /\ MonthOfDate(sessions[i].date) = payslip.call.month
          /\ sessions[j].user = "u2" /\ sessions[j].status = "closed"
          /\ MonthOfDate(sessions[j].date) = payslip.call.month
          /\ sessions[k].user = "u1" /\ sessions[k].status = "closed"
          /\ MonthOfDate(sessions[k].date) # payslip.call.month
    /\ \E i, j \in 1..Len(overtime) :
          /\ overtime[i].user = "u2"
          /\ overtime[j].user = "u1" /\ overtime[j].month # payslip.call.month

\* the names that have a StatutoryDeduction row
DeductionRows == {n \in DeductionNameSet : deductions[n] # Null}

\* C16: in a successful payslip deductions_breakdown has exactly one entry
\* for each current StatutoryDeduction row, with the row's name and
\* percentage and amount = gross_pay * percentage / 100, and
\* total_deductions is the sum of these amounts.
C16_DeductionAmounts ==
    PayslipSucceeded =>
        LET rows == payslip.result.deductions_breakdown
            gross == payslip.result.gross_pay
        IN
        /\ Len(rows) = Cardinality(DeductionRows)
        /\ \A n \in DeductionRows :
              \E j \in 1..Len(rows) :
                 /\ rows[j].name = n
                 /\ rows[j].percentage = Val(deductions[n])
                 /\ gross % 100 = 0
                 /\ 100 * rows[j].amount = (gross \div 100) * rows[j].percentage
        /\ payslip.result.total_deductions =
              SumOver(1..Len(rows), [j \in 1..Len(rows) |-> rows[j].amount])

\* PAYE 10 %, NSSF 6 % and gross_pay 1000: two entries, 100 and 60, total
\* 160
C16_Witness ==
    /\ PayslipSucceeded
    /\ deductions["PAYE"] = Some(1000)
    /\ deductions["NSSF"] = Some(600)
    /\ payslip.result.gross_pay = Money(100000)
    /\ Len(payslip.result.deductions_breakdown) = 2
    /\ \E j, k \in 1..2 :
          /\ payslip.result.deductions_breakdown[j].name = "PAYE"
          /\ payslip.result.deductions_breakdown[j].amount = Money(10000)
          /\ payslip.result.deductions_breakdown[k].name = "NSSF"
          /\ payslip.result.deductions_breakdown[k].amount = Money(6000)
    /\ payslip.result.total_deductions = Money(16000)

\* C17: in every successful payslip each of base_pay_breakdown,
\* overtime_breakdown, deductions_breakdown and advance_breakdown holds at
\* least one row, a placeholder row when the underlying set of rows is
\* empty, also when there is no StatutoryDeduction row at all.
C17_BreakdownsNonEmpty ==
    PayslipSucceeded =>
        /\ Len(payslip.result.base_pay_breakdown) >= 1
        /\ Len(payslip.result.overtime_breakdown) >= 1
        /\ Len(payslip.result.deductions_breakdown) >= 1
        /\ Len(payslip.result.advance_breakdown) >= 1

\* the store after the step
StoreAfter ==
    [sessions |-> sessions', hourly_rate |-> hourly_rate',
     deductions |-> deductions', overtime |-> overtime',
     advances |-> advances', hour_corrections |-> hour_corrections',
     rate_snapshots |-> rate_snapshots',
     deduction_snapshots |-> deduction_snapshots']

\* the payslip of (u, month, year) computed from the store db
PayslipOf(db, u, month, year) ==
    generate_detailed_payslip_result(db, u, month, year, {})

\* C18: a HourCorrection row with a non-zero amount changes the payslip of
\* its user, month and year: the store with the row and the store without
\* it yield different gross_pay and different net_pay.
C18_CorrectionsCounted ==
    [][( /\ Len(hour_corrections') = Len(hour_corrections) + 1
         /\ hour_corrections'[Len(hour_corrections')].amount # 0 )
       => LET row == hour_corrections'[Len(hour_corrections')]
              before == PayslipOf(Store, row.user, row.month, row.year)
              after == PayslipOf(StoreAfter, row.user, row.month, row.year)
          IN  /\ after.gross_pay # before.gross_pay
              /\ after.net_pay # before.net_pay]_vars

\* snapshot tables other than the stored ones
RateSnapshotTables ==
    { <<>>,
      <<HourlyRateSnapshot("u1", 99900, 1)>>,
      <<[HourlyRateSnapshot("u1", 99900, 1) EXCEPT !.effective_to = Some(2)],
        HourlyRateSnapshot("u2", 50000, 2)>> }
DeductionSnapshotTables ==
    { <<>>,
      <<StatutoryDeductionSnapshot("PAYE", 5000, 1)>>,
      <<[StatutoryDeductionSnapshot("NSSF", 100, 1)
            EXCEPT !.effective_to = Some(2)]>> }

\* C19: the payslip is computed from the live hourly_rate and the live
\* StatutoryDeduction percentages and not from the snapshot tables: a store
\* that differs from the one a payslip was computed from only in its
\* HourlyRateSnapshot or StatutoryDeductionSnapshot rows yields the same
\* payslip, and a change of a user's hourly_rate or of a deduction's
\* percentage changes the recomputed payslip of every period, which shows
\* the new value.
C19_LiveRatesOnly ==
    [][/\ (payslip' # payslip /\ payslip' # NoPayslip) =>
             LET c == payslip'.call IN
             /\ \A rs \in RateSnapshotTables :
                   PayslipOf([Store EXCEPT !.rate_snapshots = rs],
                             c.user, c.month, c.year) = payslip'.result
             /\ \A ds \in DeductionSnapshotTables :
                   PayslipOf([Store EXCEPT !.deduction_snapshots = ds],
                             c.user, c.month, c.year) = payslip'.result
       /\ \A u \in Users :
             hourly_rate'[u] # hourly_rate[u] =>
                \A period \in PayslipPeriods :
                   LET after == PayslipOf(StoreAfter, u, period[1], period[2])
                   IN  /\ after # PayslipOf(Store, u, period[1], period[2])
                       /\ after.hourly_rate = hourly_rate'[u]
       /\ \A n \in DeductionNameSet :
             (deductions[n] # Null /\ deductions'[n] # deductions[n]) =>
                \A u \in Users, period \in PayslipPeriods :
                   LET after == PayslipOf(StoreAfter, u, period[1], period[2])
                   IN  /\ after # PayslipOf(Store, u, period[1], period[2])
                       /\ \E j \in 1..Len(after.deductions_breakdown) :
                             /\ after.deductions_breakdown[j].name = n
                             /\ after.deductions_breakdown[j].percentage =
                                   Val(deductions'[n])]_vars

\* a payslip of u1 computed after the rate of u1 and a percentage were
\* changed: it shows the new rate and the new percentage, which the open
\* snapshots hold too
C19_Witness ==
    /\ PayslipSucceeded
    /\ payslip.call.user = "u1"
    /\ payslip.result.gross_pay > 0
    /\ payslip.result.total_deductions > 0
    /\ \E k \in 1..Len(rate_snapshots) :
          /\ rate_snapshots[k].user = "u1"
          /\ rate_snapshots[k].effective_to = Null
          /\ rate_snapshots[k].hourly_rate = payslip.result.hourly_rate
    /\ \E k \in 1..Len(deduction_snapshots), j \in 1..Len(payslip.result.deductions_breakdown) :
          /\ deduction_snapshots[k].deduction = payslip.result.deductions_breakdown[j].name
          /\ deduction_snapshots[k].percentage = payslip.result.deductions_breakdown[j].percentage

\* C20: generate_detailed_payslip returns either status success with the
\* complete structure, or exactly {status: error, message:
\* detailed_payslip_failed}; when one of its sub-steps (hourly rate,
\* sessions, overtime, deductions, advances) fails it returns the error and
\* it writes no table.
C20_NoPartialPayslip ==
    [][payslip' # payslip =>
         /\ \/ /\ payslip'.result.status = "success"
               /\ DOMAIN payslip'.result = PayslipKeys
            \/ payslip'.result = PayslipError
         /\ payslip'.call.failing # {} => payslip'.result = PayslipError
         /\ StoreAfter = Store]_vars

\* ---------------------------------------------------------------- corrections
Abs(x) == IF x < 0 THEN 0 - x ELSE x
CorrectionIds == 1..Len(hour_corrections)

C22_RateFrozen ==
    [][ /\ Len(hour_corrections') = Len(hour_corrections) + 1
           => LET row == hour_corrections'[Len(hour_corrections')]
              IN row.hourly_rate = hourly_rate[row.user]
        /\ hourly_rate' # hourly_rate => hour_corrections' = hour_corrections
        /\ \A k \in 1..Len(hour_corrections'),
              h \in CorrectionHourInputs, a \in SuppliedAmounts :
              LET row == hour_corrections'[k] IN
              \A saved \in HourCorrection_save(row, h, Some(row.hourly_rate), a) :
                  /\ saved.hourly_rate = row.hourly_rate
                  /\ Abs(Money(saved.amount) - h * row.hourly_rate) <= 50
      ]_vars

\* A stored correction that carries the rate its user had when it was
\* recorded, after the rate of the user was changed
C22_Witness ==
    /\ hourly_rate["u1"] = 20000
    /\ \E k \in 1..Len(rate_snapshots) :
          /\ rate_snapshots[k].user = "u1"
          /\ rate_snapshots[k].hourly_rate = 20000
          /\ rate_snapshots[k].effective_to = Null
    /\ \E k \in CorrectionIds :
          /\ hour_corrections[k].user = "u1"
          /\ hour_corrections[k].hourly_rate = 15025
          /\ hour_corrections[k].hours = 33
          /\ hour_corrections[k].amount = 4958


\* ---------------------------------------------------------------- snapshots
\* the open snapshots (effective_to null) of a user and of a deduction
OpenRateSnapshots(u) ==
    {k \in 1..Len(rate_snapshots) :
        rate_snapshots[k].user = u /\ rate_snapshots[k].effective_to = Null}
OpenDeductionSnapshots(n) ==
    {k \in 1..Len(deduction_snapshots) :
        /\ deduction_snapshots[k].deduction = n
        /\ deduction_snapshots[k].effective_to = Null}

\* C23: in every reachable state each user has at most one HourlyRateSnapshot
\* with effective_to null and each StatutoryDeduction has at most one
\* StatutoryDeductionSnapshot with effective_to null.
C23_AtMostOneOpenSnapshot ==
    /\ \A u \in Users : Cardinality(OpenRateSnapshots(u)) <= 1
    /\ \A n \in DeductionNameSet : Cardinality(OpenDeductionSnapshots(n)) <= 1


\* C24: in every reachable state each existing user has exactly one open
\* HourlyRateSnapshot and each existing StatutoryDeduction has exactly one
\* open StatutoryDeductionSnapshot, those never changed since their
\* creation included.
C24_ExactlyOneOpenSnapshot ==
    /\ \A u \in Users : Cardinality(OpenRateSnapshots(u)) = 1
    /\ \A n \in DeductionNameSet :
          deductions[n] # Null => Cardinality(OpenDeductionSnapshots(n)) = 1


\* the values timezone.now() takes
SnapshotTimes == 1..(MaxRateSnapshots + MaxDeductionSnapshots + 1)

\* C25: a set_deduction that changes the percentage of an existing deduction
\* gives the open snapshot of the deduction effective_to = t and adds exactly
\* one snapshot with the new percentage, effective_from = t and effective_to
\* null; a step that leaves every percentage as stored creates and modifies
\* no deduction snapshot; and the save that changes the hourly_rate of a user
\* leaves the user with exactly one open snapshot, which carries the new
\* rate, every earlier snapshot of the user closed no later than it starts.
C25_SnapshotOnChange ==
    [][ /\ \A n \in DeductionNameSet :
              (deductions[n] # Null /\ deductions'[n] # deductions[n]) =>
              \E t \in SnapshotTimes :
                  /\ Len(deduction_snapshots') = Len(deduction_snapshots) + 1
                  /\ deduction_snapshots'[Len(deduction_snapshots')] =
                        [deduction |-> n, percentage |-> Val(deductions'[n]),
                         effective_from |-> t, effective_to |-> Null]
                  /\ \A k \in 1..Len(deduction_snapshots) :
                        deduction_snapshots'[k] =
                            IF k \in OpenDeductionSnapshots(n)
                            THEN [deduction_snapshots[k] EXCEPT
                                     !.effective_to = Some(t)]
                            ELSE deduction_snapshots[k]
        /\ deductions' = deductions => deduction_snapshots' = deduction_snapshots
        /\ \A u \in Users :
              hourly_rate'[u] # hourly_rate[u] =>
              \E j \in 1..Len(rate_snapshots') :
                  /\ rate_snapshots'[j].user = u
                  /\ rate_snapshots'[j].hourly_rate = hourly_rate'[u]
                  /\ rate_snapshots'[j].effective_to = Null
                  /\ \A k \in 1..Len(rate_snapshots') :
                        (k # j /\ rate_snapshots'[k].user = u) =>
                            /\ rate_snapshots'[k].effective_to # Null
                            /\ Val(rate_snapshots'[k].effective_to)
                                  <= rate_snapshots'[j].effective_from
      ]_vars


\* no save of a user row is between its receiver and its UPDATE
NoRateSaveInFlight ==
    \A p \in Procs : req[p].pc \notin {"rate_close", "rate_create", "rate_write"}

\* C30: whenever a user has an open HourlyRateSnapshot and no save of a rate
\* is under way, the hourly_rate of the open snapshot is the stored
\* hourly_rate of the user; a clock_in or clock_out that saves
\* is_present_today alone creates no snapshot.
C30_OpenSnapshotIsStoredRate ==
    NoRateSaveInFlight =>
        \A u \in Users : \A k \in OpenRateSnapshots(u) :
            rate_snapshots[k].hourly_rate = hourly_rate[u]


\* ---------------------------------------------------------------- status codes
\* C26: the results active_session_exists (of clock-in) and
\* no_active_session (of clock-out and of the current-session lookup) are
\* each answered with status code 409.
C26_ConflictsAnswered409 ==
    ( /\ reply.op \in {"clock_in", "clock_out", "get_current_session"}
      /\ reply.message \in {"active_session_exists", "no_active_session"} )
    => Response(reply) = 409


\* ---------------------------------------------------------------- clock-in type
\* C27: clock_in with a timestamp and a clockin_type outside {regular,
\* overtime}, for a user object not on leave, returns invalid_clockin_type
\* whether or not the user has an open session, creates no session and
\* changes no flag.
C27_InvalidTypeRejected ==
    [][\A p \in Procs :
         ( /\ ClockInCall(p)
           /\ ~req[p].leave
           /\ ClockInTimestamp(p) # Null
           /\ ~ValidTypeArg(ClockInType(p)) )
         => /\ ClockInReturns(p, "invalid_clockin_type")
            /\ sessions' = sessions
            /\ is_present_today' = is_present_today
            /\ is_on_leave' = is_on_leave]_vars

\* invalid_clockin_type returned to a user who has an open session
C27_Witness ==
    /\ reply.op = "clock_in"
    /\ reply.message = "invalid_clockin_type"
    /\ reply.args.timestamp # Null
    /\ StatusOpen(reply.user) # {}
    /\ ~is_on_leave[reply.user]

\* ---------------------------------------------------------------- closed rows
\* C29: no step deletes a session row or changes the id of one, and no step
\* (clock_in, clock_out, lunch_in, lunch_out, the auto-clock-out job, a leave
\* change) changes the status, clock_in_time, clock_out_time or total_hours
\* of a session that is closed when the step is taken.
C29_ClosedSessionFinal ==
    [][/\ Len(sessions') >= Len(sessions)
       /\ \A i \in SessionIds :
             /\ sessions'[i].user = sessions[i].user
             /\ sessions[i].status = "closed" =>
                   /\ sessions'[i].status = "closed"
                   /\ sessions'[i].clock_in_time = sessions[i].clock_in_time
                   /\ sessions'[i].clock_out_time = sessions[i].clock_out_time
                   /\ sessions'[i].total_hours = sessions[i].total_hours]_vars

\* a closed session has been stamped by lunch_in and lunch_out after its
\* clock-out, and its user has clocked in again since
C29_Witness ==
    \E i, j \in SessionIds :
       /\ i < j
       /\ sessions[i].user = sessions[j].user
       /\ sessions[i].status = "closed"
       /\ sessions[i].lunch_in # Null
       /\ sessions[i].lunch_out # Null
       /\ sessions[j].status = "open"

\* ---------------------------------------------------------------- one closing write
\* C28: of the clock_out calls made for a user with one open session (manual
\* calls of two workers, or a manual call and the call of the auto-clock-out
\* job), the first to run returns success and closes the session with its
\* own timestamp and notes, and any later one finds no open session: it
\* returns no_active_session and writes nothing.  No clock_out call and no
\* step of the job changes a row that is already closed, and a row the job
\* changes was open and is closed with the job's time and notes.
C28_ClosedExactlyOnce ==
    [][/\ reply'.op = "clock_out" =>
            LET u == reply'.user
                t == reply'.args.timestamp
                n == reply'.args.notes
            IN
            /\ Cardinality(StatusOpen(u)) = 1 =>
                  /\ reply'.message = "clock_out_recorded"
                  /\ \A i \in StatusOpen(u) :
                        /\ sessions'[i].status = "closed"
                        /\ sessions'[i].clock_out_time = t
                        /\ sessions'[i].total_hours =
                             Some(RoundHours(Val(t) -
                                             Val(sessions[i].clock_in_time)))
                        /\ sessions'[i].notes =
                             IF n # Null /\ n # Some("")
                             THEN n ELSE sessions[i].notes
            /\ StatusOpen(u) = {} =>
                  /\ reply'.message = "no_active_session"
                  /\ sessions' = sessions
       /\ (reply'.op = "clock_out" \/ SweepStep) =>
            /\ Len(sessions') = Len(sessions)
            /\ \A i \in SessionIds :
                  sessions[i].status = "closed" => sessions'[i] = sessions[i]
       /\ SweepStep =>
            \A i \in SessionIds :
               sessions'[i] # sessions[i] =>
                  /\ sessions'[i].status = "closed"
                  /\ sessions'[i].clock_out_time = req[CronProc].ts
                  /\ sessions'[i].notes = AutoNotes]_vars

\* the second of two clock_out calls made for the same session has returned
\* no_active_session, and the notes it carried are not on the closed row
C28_Witness ==
    /\ reply.op = "clock_out"
    /\ reply.message = "no_active_session"
    /\ reply.args.notes = Some("leaving early")
    /\ StatusOpen(reply.user) = {}
    /\ Cardinality({i \in SessionIds : sessions[i].user = reply.user}) = 1
    /\ \A i \in SessionIds :
          sessions[i].user = reply.user =>
             /\ sessions[i].status = "closed"
             /\ sessions[i].clock_out_time = reply.args.timestamp
             /\ sessions[i].notes = Null

====
